---- MODULE Spec2Model ----
(***************************************************************************)
(* simplebus: the accept loop of Server::listen and the per-connection     *)
(* framing loop around Server::read_event (src/src/server.rs).             *)
(*                                                                         *)
(* A byte is a number 0..255.  A String is kept as its UTF-8 bytes.        *)
(* Every await on the socket is one step of the model: a step is enabled   *)
(* only when the socket has something to report (data, EOF or an error).   *)
(***************************************************************************)
EXTENDS Integers, Sequences, FiniteSets, TLC

\* ------------------------------------------------------------- bounds

\* Stands for the 1024 of `vec![0u8; 1024]` (server.rs:26), scaled down so
\* that topic lines on both sides of it are sent.
PreallocLen == 2
\* The most frames one peer writes on its connection.
MaxFrames == 2
\* The most Events the handler's loop hands over before the model stops it.
MaxEvents == 3

\* ---------------------------------------------------------- constants

\* Capacity of tokio's BufReader as built by BufReader::new.
DEFAULT_BUF_SIZE == 8192

LF == 10
CR == 13

\* ------------------------------------------------------ byte sequences

Min(a, b) == IF a < b THEN a ELSE b

Take(s, n) == SubSeq(s, 1, Min(n, Len(s)))

Drop(s, n) == SubSeq(s, n + 1, Len(s))

Zeros(n) == [i \in 1..n |-> 0]

IsPrefix(s, t) == Len(s) <= Len(t) /\ SubSeq(t, 1, Len(s)) = s

\* memchr: the position of the first `b` in s, 0 when there is none.
IndexOf(b, s) ==
    IF \E i \in 1..Len(s) : s[i] = b
    THEN CHOOSE i \in 1..Len(s) : s[i] = b /\ \A j \in 1..(i - 1) : s[j] # b
    ELSE 0

\* str::trim_end_matches(&['\r', '\n'][..]): every trailing CR or LF goes.
RECURSIVE trim_end_matches(_)
trim_end_matches(s) ==
    IF s # <<>> /\ s[Len(s)] \in {CR, LF}
    THEN trim_end_matches(SubSeq(s, 1, Len(s) - 1))
    ELSE s

IsCont(s, i) == i <= Len(s) /\ s[i] >= 128 /\ s[i] <= 191

\* std::str::from_utf8 succeeds on s from position i on.
RECURSIVE Utf8From(_, _)
Utf8From(s, i) ==
    IF i > Len(s) THEN TRUE
    ELSE LET b == s[i] IN
         IF b < 128 THEN Utf8From(s, i + 1)
         ELSE IF b >= 194 /\ b <= 223
              THEN IsCont(s, i + 1) /\ Utf8From(s, i + 2)
         ELSE IF b >= 224 /\ b <= 239
              THEN /\ IsCont(s, i + 1) /\ IsCont(s, i + 2)
                   /\ (b = 224 => s[i + 1] >= 160)
                   /\ (b = 237 => s[i + 1] <= 159)
                   /\ Utf8From(s, i + 3)
         ELSE IF b >= 240 /\ b <= 244
              THEN /\ IsCont(s, i + 1) /\ IsCont(s, i + 2) /\ IsCont(s, i + 3)
                   /\ (b = 240 => s[i + 1] >= 144)
                   /\ (b = 244 => s[i + 1] <= 143)
                   /\ Utf8From(s, i + 4)
         ELSE FALSE

from_utf8_ok(s) == Utf8From(s, 1)

\* The four bytes read least significant first.
from_le_bytes(b) == b[4] * 16777216 + b[3] * 65536 + b[2] * 256 + b[1]

\* u32::from_be_bytes
from_be_bytes(b) == b[1] * 16777216 + b[2] * 65536 + b[3] * 256 + b[4]

\* u32::to_be_bytes, as the peer writes the length prefix.
to_be_bytes(n) ==
    << (n \div 16777216) % 256, (n \div 65536) % 256, (n \div 256) % 256, n % 256 >>

\* The wire form of one frame.
Encode(t, p) == t \o <<LF>> \o to_be_bytes(Len(p)) \o p

\* ------------------------------------------------------------ the peers

Conns == {1, 2}

\* Topic lines a peer writes: "", "o", "e-acute", "o\r", "ooo", and three
\* with a byte that is never valid UTF-8.
SentTopics ==
    { <<>>, <<111>>, <<195, 169>>, <<111, CR>>, <<111, 111, 111>>,
      <<255>>, <<255, 111>>, <<111, 255>> }

SentPayloads == { <<>>, <<104>> }

SentFrames == { Encode(t, p) : t \in SentTopics, p \in SentPayloads }

\* The frames a peer writes after its first one.
FollowFrames == { Encode(<<>>, <<>>), Encode(<<111>>, <<104>>) }

\* A first frame followed by at most n - 1 more.
RECURSIVE FrameStreams(_)
FrameStreams(n) ==
    IF n = 0 THEN { <<>> }
    ELSE IF n = 1 THEN { <<>> } \cup SentFrames
    ELSE LET shorter == FrameStreams(n - 1) IN
         shorter \cup { s \o f : s \in shorter \ { <<>> }, f \in FollowFrames }

\* A frame whose length prefix announces more than the peer ever writes.
HugeStreams == { <<111, LF, 1, 0, 0, 0, 104>> }

\* Every byte stream a peer may write, in full or up to any point.
Streams == FrameStreams(MaxFrames) \cup HugeStreams

\* ------------------------------------------------------------ the state

VARIABLES
    listener,      \* "init", "listening" (bound, in the accept loop), "failed"
                   \*   (bind returned an error), "accept_failed"
    main_pc,       \* main: "listen" (awaiting server.listen()) or "done"
    errors_logged, \* how many error records main has logged
    script,        \* per connection: the byte streams its peer may write
    net,           \* per connection: "absent", "ready", "open", "fin", "rst", "dead"
    sent,          \* every byte the peer has written so far
    sock,          \* bytes received by the kernel and not yet read by the task
    pc,            \* the handler task: "NoTask", "ReadTopic", "ReadLength",
                   \*   "ReadPayload", "Match", "Closed", "Aborted"
    reader,        \* the BufReader's buffered, unconsumed bytes
    buf,           \* read_event's `buf`
    bytes_read,    \* read_until's running count
    topic,         \* read_event's `topic`
    length_bytes,  \* read_event's `length_bytes`
    filled,        \* how many bytes read_exact has put into length_bytes
    length,        \* read_event's `length`
    payload,       \* the part of `payload` read_exact has filled so far
    event_result,  \* "Ok", "Err" or "None" (read_event has not returned)
    events,        \* the Events the Ok arm has handed over, in order
    eof_seen,      \* history: a read of the task has returned 0 bytes (EOF)
    call_start     \* history: how many bytes of the peer's stream were
                   \*   behind the task when the current read_event began

vars ==
    << listener, main_pc, errors_logged, script, net, sent, sock, pc, reader,
       buf, bytes_read, topic, length_bytes, filled, length, payload,
       event_result, events, eof_seen, call_start >>

mainVars == << main_pc, errors_logged, script >>

netVars == << net, sent, sock >>

localVars ==
    << reader, buf, bytes_read, topic, length_bytes, filled, length, payload,
       event_result, call_start >>

\* Server::new and main up to the call of listen; only connection 1 has a peer.
Init ==
    /\ listener = "init"
    /\ main_pc = "listen"
    /\ errors_logged = 0
    /\ script = [c \in Conns |-> Streams]
    /\ call_start = [c \in Conns |-> 0]
    /\ net = [c \in Conns |-> IF c = 1 THEN "ready" ELSE "absent"]
    /\ sent = [c \in Conns |-> <<>>]
    /\ sock = [c \in Conns |-> <<>>]
    /\ pc = [c \in Conns |-> "NoTask"]
    /\ reader = [c \in Conns |-> <<>>]
    /\ buf = [c \in Conns |-> <<>>]
    /\ bytes_read = [c \in Conns |-> 0]
    /\ topic = [c \in Conns |-> <<>>]
    /\ length_bytes = [c \in Conns |-> Zeros(4)]
    /\ filled = [c \in Conns |-> 0]
    /\ length = [c \in Conns |-> 0]
    /\ payload = [c \in Conns |-> <<>>]
    /\ event_result = [c \in Conns |-> "None"]
    /\ events = [c \in Conns |-> <<>>]
    /\ eof_seen = [c \in Conns |-> FALSE]

\* The streams of each peer when two peers connect: one frame, written in
\* full or up to any point: "o" with payload "h" on connection 1, "p" with
\* payload "i" on connection 2.
PairStreams(c) ==
    IF c = 1 THEN { Encode(<<111>>, <<104>>) } ELSE { Encode(<<112>>, <<105>>) }

\* As Init, with a peer for each of the two connections.
InitTwo ==
    /\ listener = "init"
    /\ main_pc = "listen"
    /\ errors_logged = 0
    /\ script = [c \in Conns |-> PairStreams(c)]
    /\ call_start = [c \in Conns |-> 0]
    /\ net = [c \in Conns |-> "ready"]
    /\ sent = [c \in Conns |-> <<>>]
    /\ sock = [c \in Conns |-> <<>>]
    /\ pc = [c \in Conns |-> "NoTask"]
    /\ reader = [c \in Conns |-> <<>>]
    /\ buf = [c \in Conns |-> <<>>]
    /\ bytes_read = [c \in Conns |-> 0]
    /\ topic = [c \in Conns |-> <<>>]
    /\ length_bytes = [c \in Conns |-> Zeros(4)]
    /\ filled = [c \in Conns |-> 0]
    /\ length = [c \in Conns |-> 0]
    /\ payload = [c \in Conns |-> <<>>]
    /\ event_result = [c \in Conns |-> "None"]
    /\ events = [c \in Conns |-> <<>>]
    /\ eof_seen = [c \in Conns |-> FALSE]

\* ------------------------------------------------------ the environment

\* A peer completes a TCP connection to the bound address.
PeerConnect(c) ==
    /\ listener = "listening"
    /\ net[c] = "ready"
    /\ net' = [net EXCEPT ![c] = "open"]
    /\ UNCHANGED << listener, mainVars, sent, sock, pc, localVars, events, eof_seen >>

\* The peer writes one more byte of one of its streams and it arrives.
PeerSend(c) ==
    /\ net[c] = "open"
    /\ \E s \in script[c] :
          /\ Len(s) > Len(sent[c])
          /\ IsPrefix(sent[c], s)
          /\ sent' = [sent EXCEPT ![c] = Append(@, s[Len(sent[c]) + 1])]
          /\ sock' = [sock EXCEPT ![c] = Append(@, s[Len(sent[c]) + 1])]
    /\ UNCHANGED << listener, mainVars, net, pc, localVars, events, eof_seen >>

\* The peer closes its end: the task sees EOF once the received bytes are read.
PeerClose(c) ==
    /\ net[c] = "open"
    /\ net' = [net EXCEPT ![c] = "fin"]
    /\ UNCHANGED << listener, mainVars, sent, sock, pc, localVars, events, eof_seen >>

\* The connection is reset: the next read that finds no data fails.  Data
\* received and not yet read may or may not survive the reset.
PeerReset(c) ==
    /\ net[c] = "open"
    /\ net' = [net EXCEPT ![c] = "rst"]
    /\ \E keep \in BOOLEAN :
          sock' = [sock EXCEPT ![c] = IF keep THEN @ ELSE <<>>]
    /\ UNCHANGED << listener, mainVars, sent, pc, localVars, events, eof_seen >>

\* ------------------------------------------------- socket and BufReader

\* A read on the TcpStream would not suspend.
SockReady(c) == sock[c] # <<>> \/ net[c] \in {"fin", "rst", "dead"}

\* One read of at most `cap` bytes from the TcpStream: received data first,
\* then a pending reset as an error (reported once), then EOF.
SockPoll(c, cap) ==
    IF sock[c] # <<>>
    THEN [kind |-> "data", data |-> Take(sock[c], cap),
          sock |-> Drop(sock[c], cap), net |-> net[c]]
    ELSE IF net[c] = "rst"
    THEN [kind |-> "err", data |-> <<>>, sock |-> <<>>, net |-> "dead"]
    ELSE [kind |-> "eof", data |-> <<>>, sock |-> <<>>, net |-> net[c]]

\* BufReader::poll_fill_buf would not suspend.
CanFill(c) == reader[c] # <<>> \/ SockReady(c)

\* A BufReader whose buffer is one for all connections: the bytes buffered
\* for connection 1 are served to whoever reads.
FillBufShared(c) ==
    IF reader[1] # <<>>
    THEN [kind |-> "data", data |-> reader[1], sock |-> sock[c], net |-> net[c]]
    ELSE SockPoll(c, DEFAULT_BUF_SIZE)

\* BufReader::poll_fill_buf: the buffered bytes, refilled from the socket
\* only when none are left.
FillBuf(c) ==
    IF reader[c] # <<>>
    THEN [kind |-> "data", data |-> reader[c], sock |-> sock[c], net |-> net[c]]
    ELSE SockPoll(c, DEFAULT_BUF_SIZE)

\* BufReader::poll_read for a destination with `want` free bytes: a read at
\* least as large as the capacity bypasses the empty buffer; `rest` is what
\* stays buffered.
PollRead(c, want) ==
    IF reader[c] = <<>> /\ want >= DEFAULT_BUF_SIZE
    THEN LET r == SockPoll(c, want) IN
         [kind |-> r.kind, data |-> r.data, rest |-> <<>>,
          sock |-> r.sock, net |-> r.net]
    ELSE LET f == FillBuf(c) IN
         [kind |-> f.kind, data |-> Take(f.data, want),
          rest |-> Drop(f.data, want), sock |-> f.sock, net |-> f.net]

\* ------------------------------------------------------ Server::listen

\* TcpListener::bind succeeds and listen enters its accept loop.
Bind ==
    /\ listener = "init"
    /\ listener' = "listening"
    /\ UNCHANGED << mainVars, netVars, pc, localVars, events, eof_seen >>

\* The locals of a fresh call of read_event: a new BufReader, buf of
\* PreallocLen zero bytes, length_bytes of four zero bytes.
EnterReadEvent(c) ==
    /\ reader' = [reader EXCEPT ![c] = <<>>]
    /\ buf' = [buf EXCEPT ![c] = Zeros(PreallocLen)]
    /\ bytes_read' = [bytes_read EXCEPT ![c] = 0]
    /\ topic' = [topic EXCEPT ![c] = <<>>]
    /\ length_bytes' = [length_bytes EXCEPT ![c] = Zeros(4)]
    /\ filled' = [filled EXCEPT ![c] = 0]
    /\ length' = [length EXCEPT ![c] = 0]
    /\ payload' = [payload EXCEPT ![c] = <<>>]
    /\ event_result' = [event_result EXCEPT ![c] = "None"]
    /\ call_start' = [call_start EXCEPT ![c] = Len(sent[c]) - Len(sock[c])]

\* An accept loop that runs the handler in place instead of spawning it:
\* the next accept waits for every earlier connection to be over.
AcceptInline(c) ==
    /\ listener = "listening"
    /\ net[c] \in {"open", "fin", "rst"}
    /\ pc[c] = "NoTask"
    /\ \A d \in Conns \ {c} : pc[d] \in {"NoTask", "Closed"}
    /\ pc' = [pc EXCEPT ![c] = "ReadTopic"]
    /\ EnterReadEvent(c)
    /\ UNCHANGED << listener, mainVars, netVars, events, eof_seen >>

\* listener.accept() returns connection c; its task is spawned and calls
\* read_event for the first time.
Accept(c) ==
    /\ listener = "listening"
    /\ net[c] \in {"open", "fin", "rst"}
    /\ pc[c] = "NoTask"
    /\ pc' = [pc EXCEPT ![c] = "ReadTopic"]
    /\ EnterReadEvent(c)
    /\ UNCHANGED << listener, mainVars, netVars, events, eof_seen >>

\* What the process loses when it ends: every task still running is dropped
\* with its locals, and every socket is closed with what it had received.
ProcessEnds ==
    /\ pc' = [c \in Conns |->
                IF pc[c] \in {"NoTask", "Closed"} THEN pc[c] ELSE "Aborted"]
    /\ net' = [c \in Conns |->
                 IF net[c] \in {"absent", "ready"} THEN net[c] ELSE "dead"]
    /\ sock' = [c \in Conns |-> <<>>]
    /\ reader' = [c \in Conns |-> <<>>]
    /\ buf' = [c \in Conns |-> <<>>]
    /\ bytes_read' = [c \in Conns |-> 0]
    /\ topic' = [c \in Conns |-> <<>>]
    /\ length_bytes' = [c \in Conns |-> Zeros(4)]
    /\ filled' = [c \in Conns |-> 0]
    /\ length' = [c \in Conns |-> 0]
    /\ payload' = [c \in Conns |-> <<>>]
    /\ event_result' = [c \in Conns |-> "None"]

\* main's Err arm without its error! record.
MainErrSilent ==
    /\ main_pc = "listen"
    /\ main_pc' = "done"
    /\ ProcessEnds
    /\ UNCHANGED << errors_logged, script, sent, events, eof_seen, call_start >>

\* main's Err arm: listen has returned an error; main logs it and returns,
\* and the runtime shuts down with main.  No await lies between the failing
\* call in listen and main's return.
MainErr ==
    /\ main_pc = "listen"
    /\ errors_logged' = errors_logged + 1
    /\ main_pc' = "done"
    /\ ProcessEnds
    /\ UNCHANGED << script, sent, events, eof_seen, call_start >>

\* TcpListener::bind fails: `?` returns the error to main.
BindFail ==
    /\ listener = "init"
    /\ listener' = "failed"
    /\ MainErr

\* listener.accept() returns an error (no descriptor left, a connection
\* aborted in the backlog): `?` ends the loop and returns it to main.
AcceptFail ==
    /\ listener = "listening"
    /\ listener' = "accept_failed"
    /\ MainErr

\* --------------------------------------------------- Server::read_event

\* `&buf[..bytes_read]`: the first n bytes of the Vec.
TopicSlice(b, n) == Take(b, n)

\* read_event returns `res` to the handler's loop.
Return(c, res) ==
    /\ pc' = [pc EXCEPT ![c] = "Match"]
    /\ event_result' = [event_result EXCEPT ![c] = res]

\* One turn of read_until(b'\n', &mut buf): what is buffered (or one socket
\* read) is appended to buf up to and including the first '\n'.  The call
\* ends on a '\n' or at EOF; then the topic is decoded and trimmed.
ReadUntilStep(c) ==
    /\ pc[c] = "ReadTopic"
    /\ CanFill(c)
    /\ LET f == FillBuf(c)
           i == IndexOf(LF, f.data)
           used == IF i > 0 THEN i ELSE Len(f.data)
           nbuf == buf[c] \o Take(f.data, used)
           n == bytes_read[c] + used
           slice == TopicSlice(nbuf, n)
       IN  /\ sock' = [sock EXCEPT ![c] = f.sock]
           /\ net' = [net EXCEPT ![c] = f.net]
           /\ eof_seen' = [eof_seen EXCEPT ![c] = @ \/ f.kind = "eof"]
           /\ IF f.kind = "err"
              THEN /\ Return(c, "Err")
                   /\ UNCHANGED << reader, buf, bytes_read, topic >>
              ELSE /\ reader' = [reader EXCEPT ![c] = Drop(f.data, used)]
                   /\ buf' = [buf EXCEPT ![c] = nbuf]
                   /\ bytes_read' = [bytes_read EXCEPT ![c] = n]
                   /\ IF i = 0 /\ used > 0
                      THEN UNCHANGED << pc, event_result, topic >>
                      ELSE IF from_utf8_ok(slice)
                      THEN /\ topic' = [topic EXCEPT ![c] = trim_end_matches(slice)]
                           /\ pc' = [pc EXCEPT ![c] = "ReadLength"]
                           /\ UNCHANGED event_result
                      ELSE /\ Return(c, "Err")
                           /\ UNCHANGED topic
    /\ UNCHANGED << listener, mainVars, sent, length_bytes, filled, length,
                    payload, events, call_start >>

\* One turn of `let _ = reader.read_exact(&mut length_bytes).await`: the call
\* ends when the four bytes are in, or on EOF or an error, which `let _`
\* drops; `length` is then taken from length_bytes as it stands.
ReadLengthStep(c) ==
    /\ pc[c] = "ReadLength"
    /\ CanFill(c)
    /\ LET r == PollRead(c, 4 - filled[c])
           k == Len(r.data)
           nlb == [j \in 1..4 |->
                     IF j > filled[c] /\ j <= filled[c] + k
                     THEN r.data[j - filled[c]]
                     ELSE length_bytes[c][j]]
       IN  /\ sock' = [sock EXCEPT ![c] = r.sock]
           /\ net' = [net EXCEPT ![c] = r.net]
           /\ eof_seen' = [eof_seen EXCEPT ![c] = @ \/ r.kind = "eof"]
           /\ reader' = [reader EXCEPT ![c] = r.rest]
           /\ length_bytes' = [length_bytes EXCEPT ![c] = nlb]
           /\ filled' = [filled EXCEPT ![c] = @ + k]
           /\ IF r.kind # "data" \/ filled[c] + k = 4
              THEN /\ length' = [length EXCEPT ![c] = from_be_bytes(nlb)]
                   /\ pc' = [pc EXCEPT ![c] = "ReadPayload"]
              ELSE UNCHANGED << length, pc >>
    /\ UNCHANGED << listener, mainVars, sent, buf, bytes_read, topic, payload,
                    event_result, events, call_start >>

\* The payload read with its error dropped, as `let _ = ... .await` would.
PayloadFailureDropped == "Ok"

\* What `reader.read_exact(&mut payload).await?` makes of a failed read.
PayloadFailure == "Err"

\* One turn of read_exact(&mut payload): nothing to read when length is 0;
\* EOF or an error before `length` bytes are in is returned by `?`.
ReadPayloadStep(c) ==
    /\ pc[c] = "ReadPayload"
    /\ IF length[c] = Len(payload[c])
       THEN /\ Return(c, "Ok")
            /\ UNCHANGED << netVars, reader, payload, eof_seen >>
       ELSE /\ CanFill(c)
            /\ LET r == PollRead(c, length[c] - Len(payload[c])) IN
               /\ sock' = [sock EXCEPT ![c] = r.sock]
               /\ net' = [net EXCEPT ![c] = r.net]
               /\ eof_seen' = [eof_seen EXCEPT ![c] = @ \/ r.kind = "eof"]
               /\ reader' = [reader EXCEPT ![c] = r.rest]
               /\ payload' = [payload EXCEPT ![c] = @ \o r.data]
               /\ UNCHANGED sent
               /\ IF r.kind # "data"
                  THEN Return(c, PayloadFailure)
                  ELSE IF Len(payload[c]) + Len(r.data) = length[c]
                  THEN Return(c, "Ok")
                  ELSE UNCHANGED << pc, event_result >>
    /\ UNCHANGED << listener, mainVars, buf, bytes_read, topic, length_bytes,
                    filled, length, events, call_start >>

\* `Event { topic, payload }`: payload is the whole Vec of `length` bytes.
Event(c) ==
    [topic |-> topic[c],
     payload |-> payload[c] \o Zeros(length[c] - Len(payload[c]))]

\* The Ok arm of the task's loop: the Event is handed over (printed), the
\* BufReader is dropped with whatever it still holds, and the loop calls
\* read_event again.
HandleOk(c) ==
    /\ pc[c] = "Match"
    /\ event_result[c] = "Ok"
    /\ Len(events[c]) < MaxEvents
    /\ events' = [events EXCEPT ![c] = Append(@, Event(c))]
    /\ pc' = [pc EXCEPT ![c] = "ReadTopic"]
    /\ EnterReadEvent(c)
    /\ UNCHANGED << listener, mainVars, netVars, eof_seen >>

\* An Err arm that escalates: the error ends the accept loop as well.
HandleErrFatal(c) ==
    /\ pc[c] = "Match"
    /\ event_result[c] = "Err"
    /\ pc' = [pc EXCEPT ![c] = "Closed"]
    /\ reader' = [reader EXCEPT ![c] = <<>>]
    /\ listener' = "accept_failed"
    /\ UNCHANGED << mainVars, netVars, buf, bytes_read, topic, length_bytes,
                    filled, length, payload, event_result, events, eof_seen,
                    call_start >>

\* The Err arm: the error is logged and `break` ends the task.
HandleErr(c) ==
    /\ pc[c] = "Match"
    /\ event_result[c] = "Err"
    /\ pc' = [pc EXCEPT ![c] = "Closed"]
    /\ reader' = [reader EXCEPT ![c] = <<>>]
    /\ UNCHANGED << listener, mainVars, netVars, buf, bytes_read, topic,
                    length_bytes, filled, length, payload, event_result,
                    events, eof_seen, call_start >>

\* -------------------------------------------------------- specification

Next ==
    \/ Bind
    \/ BindFail
    \/ \E c \in Conns : PeerConnect(c)
    \/ \E c \in Conns : PeerSend(c)
    \/ \E c \in Conns : PeerClose(c)
    \/ \E c \in Conns : PeerReset(c)
    \/ \E c \in Conns : Accept(c)
    \/ AcceptFail
    \/ \E c \in Conns : ReadUntilStep(c)
    \/ \E c \in Conns : ReadLengthStep(c)
    \/ \E c \in Conns : ReadPayloadStep(c)
    \/ \E c \in Conns : HandleOk(c)
    \/ \E c \in Conns : HandleErr(c)

Spec == Init /\ [][Next]_vars

\* Two connections at once.
SpecTwo == InitTwo /\ [][Next]_vars

\* --------------------------------------------- what the claims speak of

\* The bytes read_until has delivered in the current call of read_event:
\* what it appended to buf.
Line(c) == Drop(buf[c], PreallocLen)

\* The current call of read_event has got past its topic step.
TopicDecoded(c) ==
    \/ pc[c] \in {"ReadLength", "ReadPayload"}
    \/ pc[c] = "Match" /\ event_result[c] = "Ok"

\* The current call of read_event has returned an Event.
ReturnedOk(c) == pc[c] = "Match" /\ event_result[c] = "Ok"

\* A topic a frame may carry: valid UTF-8 without a '\n'.
ValidTopic(t) == from_utf8_ok(t) /\ \A i \in 1..Len(t) : t[i] # LF

\* The complete frames of a byte stream, read by the wire protocol:
\* topic, '\n', four length bytes, that many payload bytes.
RECURSIVE WireFrames(_)
WireFrames(s) ==
    LET i == IndexOf(LF, s) IN
    IF i = 0 \/ Len(s) < i + 4 THEN <<>>
    ELSE LET n == from_be_bytes(SubSeq(s, i + 1, i + 4)) IN
         IF Len(s) < i + 4 + n THEN <<>>
         ELSE << [topic |-> SubSeq(s, 1, i - 1),
                  payload |-> SubSeq(s, i + 5, i + 4 + n)] >>
              \o WireFrames(Drop(s, i + 4 + n))

\* The bytes of a stream that follow its complete frames.
RECURSIVE WireRest(_)
WireRest(s) ==
    LET i == IndexOf(LF, s) IN
    IF i = 0 \/ Len(s) < i + 4 THEN s
    ELSE LET n == from_be_bytes(SubSeq(s, i + 1, i + 4)) IN
         IF Len(s) < i + 4 + n THEN s ELSE WireRest(Drop(s, i + 4 + n))

\* How many bytes of the current line precede its '\n', if it has one yet.
TopicBytes(c) ==
    LET l == Line(c) IN
    IF l # <<>> /\ l[Len(l)] = LF THEN Len(l) - 1 ELSE Len(l)

AllValid(w) == \A i \in 1..Len(w) : ValidTopic(w[i].topic)

\* The task waits for the first byte of a frame and nothing received is unread.
WaitingAtBoundary(c) ==
    /\ pc[c] = "ReadTopic"
    /\ bytes_read[c] = 0
    /\ reader[c] = <<>>
    /\ sock[c] = <<>>
    /\ net[c] = "open"

\* ---------------------------------------------------------------- claims

\* C1: round trip.  When the peer has sent topic, '\n', the big-endian
\* length of the payload and the payload, for a topic that is valid UTF-8
\* without '\n', the first Event handed over has that topic and that payload.
C1_RoundTrip ==
    \A c \in Conns : \A t \in SentTopics : \A p \in SentPayloads :
        (ValidTopic(t) /\ IsPrefix(Encode(t, p), sent[c]) /\ events[c] # <<>>)
            => events[c][1] = [topic |-> t, payload |-> p]

\* C2: once the topic step is over, the topic is the bytes the delimiter
\* read delivered in this call, with trailing '\r' and '\n' stripped.
C2_TopicFromBytesRead ==
    \A c \in Conns : TopicDecoded(c) => topic[c] = trim_end_matches(Line(c))

\* C3: pipelining.  When the peer has sent exactly two valid frames back to
\* back, the Events handed over are never other than the first frame's and
\* then the second frame's, and once the task has nothing left to read it
\* has handed over both.
C3_Pipelining ==
    \A c \in Conns :
        LET w == WireFrames(sent[c]) IN
        (Len(w) = 2 /\ WireRest(sent[c]) = <<>> /\ AllValid(w))
            => /\ IsPrefix(events[c], w)
               /\ WaitingAtBoundary(c) => events[c] = w

\* C4: once the task has observed the peer's close (a read returned EOF),
\* no further Event is handed over on that connection.
C4_NoEventAfterEof ==
    [][\A c \in Conns : eof_seen[c] => events'[c] = events[c]]_vars

\* C5: an Event is returned only after a topic line ended by '\n', all four
\* length bytes and all `length` payload bytes were read, and a connection
\* never has more Events than the peer has sent complete frames.
C5_OnlyCompleteFrames ==
    \A c \in Conns :
        /\ Len(events[c]) <= Len(WireFrames(sent[c]))
        /\ ReturnedOk(c) =>
              /\ Line(c) # <<>> /\ Line(c)[Len(Line(c))] = LF
              /\ filled[c] = 4
              /\ Len(payload[c]) = length[c]

\* C6: the length read is atomic.  read_event goes on to the payload, or
\* returns an Event, only with all four length bytes obtained.
C6_LengthAtomic ==
    \A c \in Conns :
        (pc[c] = "ReadPayload" \/ ReturnedOk(c)) => filled[c] = 4

\* C7: the payload read is atomic.  read_event returns an Event only with
\* all `length` payload bytes obtained: when the stream closes or the read
\* fails before that, it has returned an error.
C7_PayloadAtomic ==
    \A c \in Conns :
        pc[c] = "Match" =>
            /\ event_result[c] \in {"Ok", "Err"}
            /\ event_result[c] = "Ok" => Len(payload[c]) = length[c]
            /\ Len(payload[c]) < length[c] => event_result[c] = "Err"

\* C7, witness: the peer closed after the whole length prefix and before
\* the whole payload, and read_event has returned an error.
C7_Witness ==
    \E c \in Conns :
        /\ pc[c] = "Match" /\ event_result[c] = "Err"
        /\ filled[c] = 4
        /\ Len(payload[c]) < length[c]
        /\ eof_seen[c]
        /\ events[c] = <<>>

\* C8: a topic line of more than PreallocLen bytes without a '\n' makes the
\* topic step fail: the task is neither still reading that line nor past it.
C8_TopicTooLong ==
    \A c \in Conns :
        (pc[c] = "ReadTopic" \/ TopicDecoded(c)) => TopicBytes(c) <= PreallocLen

\* C9: a topic line that is not valid UTF-8 makes read_event fail: the task
\* never gets past the topic step with such a line, whatever its length.
C9_InvalidTopicEncoding ==
    \A c \in Conns : TopicDecoded(c) => from_utf8_ok(Line(c))

\* C10: in order, once.  While every complete frame the peer has sent is
\* valid, the Events handed over are a prefix of those frames: none twice,
\* none out of order, none skipped.
C10_InOrderOnce ==
    \A c \in Conns :
        LET w == WireFrames(sent[c]) IN
        AllValid(w) => IsPrefix(events[c], w)

\* ------------------------------------------- claims on two connections

\* Everything that belongs to connection c.
ConnState(c) ==
    << net[c], sent[c], sock[c], pc[c], reader[c], buf[c], bytes_read[c],
       topic[c], length_bytes[c], filled[c], length[c], payload[c],
       event_result[c], events[c], eof_seen[c], call_start[c] >>

\* The buffers and framing state of connection c's task.
FramingState(c) ==
    << reader[c], buf[c], bytes_read[c], topic[c], length_bytes[c], filled[c],
       length[c], payload[c], event_result[c], events[c] >>

\* The bytes the current call of read_event has taken from the socket, in
\* the order it took them.
Held(c) ==
    Line(c) \o Take(length_bytes[c], filled[c]) \o payload[c] \o reader[c]

\* x is the part of s that starts after its first k bytes.
SegmentAt(x, s, k) ==
    k + Len(x) <= Len(s) /\ SubSeq(s, k + 1, k + Len(x)) = x

Segment(x, s) == \E k \in 0..Len(s) : SegmentAt(x, s, k)

\* The accept loop has a connection to return that has no task yet.
Pending(c) ==
    listener = "listening" /\ net[c] \in {"open", "fin", "rst"} /\ pc[c] = "NoTask"

\* The task of c is in read_event and its next read would not suspend.
CanRead(c) ==
    \/ pc[c] \in {"ReadTopic", "ReadLength"} /\ CanFill(c)
    \/ pc[c] = "ReadPayload" /\ (length[c] = Len(payload[c]) \/ CanFill(c))

TaskStep(c) == ReadUntilStep(c) \/ ReadLengthStep(c) \/ ReadPayloadStep(c)

\* C11: isolation of data.  What a task holds and what it hands over is
\* made of the bytes sent on its own connection, at the place its call
\* began, and a step that changes the buffers or framing state of one
\* connection, the end of the process apart, changes nothing of the other.
C11_DataIsolation ==
    /\ [](\A c \in Conns :
            /\ SegmentAt(Held(c), sent[c], call_start[c])
            /\ \A i \in 1..Len(events[c]) : Segment(events[c][i].payload, sent[c]))
    /\ [][\A c \in Conns : \A d \in Conns \ {c} :
            (FramingState(c)' # FramingState(c) /\ main_pc' = main_pc)
                => ConnState(d)' = ConnState(d)]_vars

\* C11, witness: both tasks have decoded the frame of their own peer while
\* both connections were open.
C11_Witness ==
    /\ \A c \in Conns : net[c] = "open" /\ Len(events[c]) = 1
    /\ events[1][1].payload = <<104>>
    /\ events[2][1].payload = <<105>>

\* C12: isolation of failures.  The step that ends a task on an error
\* leaves the listener, main and the other connection as they were, and
\* with one task closed the accept loop can still accept the other
\* connection and the other task can still take its next read.
C12_FailureIsolation ==
    /\ [](\A c \in Conns : \A d \in Conns \ {c} :
            pc[c] = "Closed" =>
                /\ Pending(d) => ENABLED Accept(d)
                /\ (listener = "listening" /\ CanRead(d)) => ENABLED TaskStep(d))
    /\ [][\A c \in Conns :
            (pc[c] = "Match" /\ event_result[c] = "Err" /\ pc'[c] = "Closed")
                => /\ listener' = listener
                   /\ main_pc' = main_pc
                   /\ \A d \in Conns \ {c} : ConnState(d)' = ConnState(d)]_vars

\* C12, witness: the task of one connection has ended on an error, the
\* listener is in its loop and the other task has decoded its frame.
C12_Witness ==
    \E c \in Conns : \E d \in Conns \ {c} :
        /\ pc[c] = "Closed" /\ events[c] = <<>>
        /\ listener = "listening"
        /\ pc[d] = "ReadTopic" /\ Len(events[d]) = 1 /\ net[d] = "open"

\* C13: the accept loop waits for no connection.  Whatever the other tasks
\* are doing, a connection that has arrived can be accepted.
C13_AcceptNeverWaits ==
    \A c \in Conns : Pending(c) => ENABLED Accept(c)

\* C13, witness: a task sits in its first read with nothing ever sent to
\* it, and the other connection has been accepted and served meanwhile.
C13_Witness ==
    \E c \in Conns : \E d \in Conns \ {c} :
        /\ listener = "listening"
        /\ pc[c] = "ReadTopic" /\ net[c] = "open" /\ sent[c] = <<>>
        /\ pc[d] # "NoTask" /\ events[d] # <<>>

\* --------------------------------------- claims on listen and on framing

\* C14: once bind has succeeded the accept loop never ends: listen does not
\* return and main does not finish, whatever error occurs.
C14_AcceptLoopForever ==
    [][listener = "listening" => (listener' = "listening" /\ main_pc' = "listen")]_vars

\* C15: when bind fails, listen returns the error with no connection
\* accepted and no task started, the bind is not tried again, and main has
\* logged one error record when it is done.
C15_BindFailure ==
    /\ [](listener = "failed" =>
            /\ \A c \in Conns : pc[c] = "NoTask" /\ events[c] = <<>>
            /\ main_pc = "done" => errors_logged = 1)
    /\ [][listener = "failed" => listener' = "failed"]_vars

\* C15, witness: bind has failed and main has reported it and returned.
C15_Witness ==
    listener = "failed" /\ main_pc = "done" /\ errors_logged = 1

\* C16: a frame with length prefix 00 00 00 00 is valid.  When the peer has
\* sent a valid topic, '\n' and four zero bytes, the first Event handed over
\* has that topic and an empty payload.
C16_ZeroLength ==
    \A c \in Conns : \A t \in SentTopics :
        (ValidTopic(t) /\ IsPrefix(Encode(t, <<>>), sent[c]) /\ events[c] # <<>>)
            => events[c][1] = [topic |-> t, payload |-> <<>>]

\* The next read of c's task fails: the socket reports an error, or EOF
\* comes before the length or the payload is complete.
StepFails(c) ==
    \/ pc[c] = "ReadTopic" /\ CanFill(c) /\ FillBuf(c).kind = "err"
    \/ pc[c] = "ReadLength" /\ CanFill(c)
         /\ PollRead(c, 4 - filled[c]).kind # "data"
    \/ pc[c] = "ReadPayload" /\ length[c] # Len(payload[c]) /\ CanFill(c)
         /\ PollRead(c, length[c] - Len(payload[c])).kind # "data"

\* C17: Closed at the first failure, and for good.  When the task takes a
\* read that fails, read_event returns the error at that step; the Err arm
\* leads to Closed only; a closed task reads nothing and hands over nothing.
C17_ClosedAtFirstFailure ==
    [][\A c \in Conns :
        /\ (StepFails(c) /\ pc'[c] \notin {pc[c], "Aborted"})
              => (pc'[c] = "Match" /\ event_result'[c] = "Err")
        /\ (pc[c] = "Match" /\ event_result[c] = "Err")
              => (pc'[c] \in {"Match", "Closed", "Aborted"} /\ events'[c] = events[c])
        /\ pc[c] = "Closed"
              => (pc'[c] = "Closed" /\ events'[c] = events[c] /\ sock'[c] = sock[c])
      ]_vars

\* C18: byte conservation.  When read_event returns an Event it has taken
\* from the socket the bytes of its frame and no more: nothing it received
\* beyond the frame is left in the BufReader it drops.
C18_ByteConservation ==
    \A c \in Conns : ReturnedOk(c) => reader[c] = <<>>

\* C19: with the four bytes b0 b1 b2 b3 of the length prefix received,
\* `length` is b0*2^24 + b1*2^16 + b2*2^8 + b3, the payload is filled from
\* the bytes that follow the prefix in the peer's stream, and the Event
\* returned carries exactly `length` bytes.
C19_BigEndianLength ==
    \A c \in Conns :
        (filled[c] = 4 /\ pc[c] \in {"ReadPayload", "Match"}) =>
            LET k == call_start[c] + bytes_read[c]
                b == SubSeq(sent[c], k + 1, k + 4)
            IN  /\ Len(sent[c]) >= k + 4
                /\ length[c] = b[1] * 16777216 + b[2] * 65536 + b[3] * 256 + b[4]
                /\ SegmentAt(payload[c], sent[c], k + 4)
                /\ ReturnedOk(c) =>
                      /\ Len(Event(c).payload) = length[c]
                      /\ Event(c).payload = payload[c]

\* C19, witness: the prefix 00 00 00 01 was received and read_event has
\* returned an Event with the one byte that followed it.
C19_Witness ==
    \E c \in Conns :
        /\ ReturnedOk(c) /\ filled[c] = 4
        /\ length_bytes[c] = <<0, 0, 0, 1>> /\ length[c] = 1
        /\ payload[c] = <<104>>
====
